---- MODULE Spec2Model ----
(***************************************************************************)
(* A model of bench.py: the request worker send_request with its           *)
(* streaming parser, and the orchestrator run_bench with its admission     *)
(* gate (asyncio.Semaphore) and its completion-order drain loop.           *)
(*                                                                         *)
(* The specifications share the operators that model send_request:         *)
(*   SpecReq : one call of send_request, one action per suspension point   *)
(*             (the POST, each line of the body, the end of the body);     *)
(*   Spec    : run_bench, N workers behind the gate; a worker's whole      *)
(*             send_request is the operator send_request applied to the    *)
(*             response the server gives it (its locals are task-local,    *)
(*             so its inner suspension points touch no shared state).      *)
(*                                                                         *)
(* Abstractions, all exact for what the code observes:                     *)
(*   - a text is its length where the code only takes len() of it          *)
(*     (completion_text); prompts, bodies and error messages are strings;  *)
(*   - time is in clock ticks; perf_counter() grows by at least one tick   *)
(*     over every await on the network;                                    *)
(*   - a float is a whole number of thousandths with FloatBits significant *)
(*     bits: every float operation rounds its exact result to the nearest  *)
(*     such number, ties to even, as binary floating point does;           *)
(*   - a raw line is what decode/strip/startswith/json.loads make of it:   *)
(*     a non-data line, the [DONE] sentinel, an undecodable payload, or a  *)
(*     decoded JSON value with the keys the code reads.                    *)
(***************************************************************************)
EXTENDS Integers, Sequences, FiniteSets, TLC

\* ------------------------------------------------------------------ bounds

\* longest response body, in lines, the server sends (SpecReq)
MaxLines == 3
\* largest number of prompts, args.requests (Spec)
MaxRequests == 3
\* largest concurrency cap, args.parallel (Spec)
MaxParallel == 2
\* significant bits of a float (53 in the interpreter's binary64)
FloatBits == 4
\* longest list of results given to the aggregator (SpecAgg)
MaxResults == 4
\* most samples the sampler takes (SpecRam)
MaxSamples == 3

\* ------------------------------------------------------------- exceptions

\* An exception is its type and str(e), which line 172 stores.
NoExc == [type |-> "None", msg |-> ""]

\* aiohttp's total timeout raises asyncio.TimeoutError with no argument:
\* its str() is the empty string.
TimeoutError == [type |-> "TimeoutError", msg |-> ""]

ServerDisconnectedError ==
    [type |-> "ServerDisconnectedError", msg |-> "Server disconnected"]

\* last_chunk.get(...) on a decoded value that is not an object
AttributeError == [type |-> "AttributeError", msg |-> "no attribute 'get'"]

\* [][0] on an empty choices list
IndexError == [type |-> "IndexError", msg |-> "list index out of range"]

\* resp.json() on a body that is not JSON
JSONDecodeError == [type |-> "JSONDecodeError", msg |-> "Expecting value"]

\* what the transport can raise at an await
TransportErrors == {TimeoutError, ServerDisconnectedError}

\* a narrower clause, `except aiohttp.ClientError`: a timeout escapes
CatchesClientErrorOnly(e) == e.type # "TimeoutError"

\* no except clause at all
CatchesNothing(e) == FALSE

\* `except Exception` (line 170) catches every exception the body raises.
Catches(e) == TRUE

\* ---------------------------------------------------------- RequestResult

RequestResult(prompt) ==
    [prompt |-> prompt, status |-> "ok", ttft_ms |-> 0, total_time_s |-> 0,
     prompt_tokens |-> 0, completion_tokens |-> 0, tokens_per_sec |-> 0,
     error |-> ""]

\* ------------------------------------------------------------ raw lines

\* One item of resp.content. kind: "other" (no data: prefix), "done"
\* (payload [DONE]), "bad" (json.loads fails), "json" (decoded), "raise"
\* (the await of the next line raises exc).
\* A decoded value: top is "object" or "list"; choices is "absent",
\* "empty" ([]) or "list" ([{delta: {content}}]); content is the length
\* of choices[0].delta.content, 0 when absent, null or "";
\* usage is "absent", "null", "object" or "string" (a non-object value);
\* ct, pt are usage.completion_tokens, usage.prompt_tokens, 0 when absent.
Line(kind, top, choices, content, usage, ct, pt, exc) ==
    [kind |-> kind, top |-> top, choices |-> choices, content |-> content,
     usage |-> usage, ct |-> ct, pt |-> pt, exc |-> exc]

\* last_chunk = None (line 129)
NoChunk == Line("none", "None", "absent", 0, "absent", 0, 0, NoExc)

KeepAlive == Line("other", "None", "absent", 0, "absent", 0, 0, NoExc)
Done == Line("done", "None", "absent", 0, "absent", 0, 0, NoExc)
BadLine == Line("bad", "None", "absent", 0, "absent", 0, 0, NoExc)
RaiseLine(e) == Line("raise", "None", "absent", 0, "absent", 0, 0, e)
Event(choices, content, usage, ct, pt) ==
    Line("json", "object", choices, content, usage, ct, pt, NoExc)
NonObject == Line("json", "list", "absent", 0, "absent", 0, 0, NoExc)

\* ---------------------------------------------------------------- floats

\* the spacing of the floats around x >= 0
RECURSIVE Ulp(_)
Ulp(x) == IF x < 2 ^ FloatBits THEN 1 ELSE 2 * Ulp(x \div 2)

\* The float nearest to the exact quotient a / b (a >= 0, b > 0), ties to
\* the even significand: the result of a float division, and with b = 1
\* of any float operation whose exact result is a.
RoundRatio(a, b) ==
    LET u == Ulp(a \div b)
        lo == ((a \div b) \div u) * u
        rest == a - lo * b
    IN  IF 2 * rest < u * b THEN lo
        ELSE IF 2 * rest > u * b THEN lo + u
        ELSE IF (lo \div u) % 2 = 0 THEN lo ELSE lo + u

\* x + y on floats
FloatAdd(x, y) == RoundRatio(x + y, 1)

\* ------------------------------------------------- the streaming parser

Max(a, b) == IF a >= b THEN a ELSE b

\* the locals of the streaming branch at line 128-129 and line 117
InitLocals ==
    [completion_text |-> 0, last_chunk |-> NoChunk, first_token_time |-> <<>>]

\* the decode error is not caught: it leaves the loop
BadPayloadRaises(loc) ==
    [loc |-> loc, ctl |-> "raise", exc |-> JSONDecodeError]

\* json.loads fails: the line is skipped, last_chunk keeps its value
\* (lines 137-140)
OnBadPayload(loc) == [loc |-> loc, ctl |-> "continue", exc |-> NoExc]

\* the sentinel is skipped like any other line that is not an event
SentinelSkipped(loc) == [loc |-> loc, ctl |-> "continue", exc |-> NoExc]

\* the payload is [DONE]: the loop is left (lines 135-136)
OnSentinel(loc) == [loc |-> loc, ctl |-> "break", exc |-> NoExc]

\* the failure is taken for the end of the body
TransportErrorEndsStream(loc, e) ==
    [loc |-> loc, ctl |-> "break", exc |-> NoExc]

\* The await of the next line raises (line 130): nothing in the loop
\* catches it, it leaves the loop and lines 147-168 are not run.
OnTransportError(loc, e) == [loc |-> loc, ctl |-> "raise", exc |-> e]

\* an event of an unexpected shape is skipped like an undecodable one
BadShapeSkipped(loc, e) == [loc |-> loc, ctl |-> "continue", exc |-> NoExc]

\* Line 141 raises on a decoded value without .get (AttributeError) and on
\* an empty choices list (IndexError); the loop catches neither.
OnBadShape(loc, e) == [loc |-> loc, ctl |-> "raise", exc |-> e]

\* the time of every fragment is recorded, the last one staying
LastTokenTime(loc, token_text, now) ==
    IF token_text > 0 THEN <<now>> ELSE loc.first_token_time

\* `if token_text and first_token_time is None` (lines 143-144)
FirstTokenTime(loc, token_text, now) ==
    IF token_text > 0 /\ loc.first_token_time = <<>>
    THEN <<now>>
    ELSE loc.first_token_time

\* One iteration of `async for raw_line in resp.content` (lines 130-145),
\* the line arriving at time now. ctl: "continue" (next iteration),
\* "break" (line 136), "raise" (an exception leaves the loop).
ProcessLine(loc, raw, now) ==
    IF raw.kind = "raise"
    THEN OnTransportError(loc, raw.exc)
    ELSE IF raw.kind = "other"
    THEN [loc |-> loc, ctl |-> "continue", exc |-> NoExc]
    ELSE IF raw.kind = "done"
    THEN OnSentinel(loc)
    ELSE IF raw.kind = "bad"
    THEN OnBadPayload(loc)
    ELSE LET loc1 == [loc EXCEPT !.last_chunk = raw]
         IN  IF raw.top # "object"
             THEN OnBadShape(loc1, AttributeError)
             ELSE IF raw.choices = "empty"
             THEN OnBadShape(loc1, IndexError)
             ELSE LET token_text ==
                          IF raw.choices = "absent" THEN 0 ELSE raw.content
                      ftt == FirstTokenTime(loc, token_text, now)
                  IN  [loc |-> [loc1 EXCEPT
                                  !.first_token_time = ftt,
                                  !.completion_text = @ + token_text],
                       ctl |-> "continue", exc |-> NoExc]

\* `if last_chunk:` (line 154): None and the empty object {} are falsy.
Truthy(chunk) ==
    /\ chunk.kind = "json"
    /\ ~(chunk.choices = "absent" /\ chunk.usage = "absent")

\* the estimate without its lower limit
EstimateUnclamped(length) == length \div 4

\* max(1, len(completion_text) // 4) (line 149)
EstimateTokens(length) == Max(1, length \div 4)

\* the usage block is never looked for
NoUsageChunk(loc) == NoChunk

\* Which chunk lines 154-159 read the usage block from.
UsageChunk(loc) == loc.last_chunk

\* After the loop (lines 147-159), at time now. Returns the result as far
\* as it was written and the exception that interrupted it, if any.
StreamResult(result, loc, now, t0) ==
    LET r1 == [result EXCEPT
                 !.total_time_s = now - t0,
                 !.completion_tokens = EstimateTokens(loc.completion_text),
                 !.ttft_ms = IF loc.first_token_time # <<>>
                             THEN RoundRatio(
                                      (loc.first_token_time[1] - t0) * 1000, 1)
                             ELSE @]
        chunk == UsageChunk(loc)
    IN  IF ~Truthy(chunk)
        THEN [result |-> r1, exc |-> NoExc]
        ELSE IF chunk.usage = "string"
        THEN [result |-> r1, exc |-> AttributeError]
        ELSE IF chunk.usage # "object"
        THEN [result |-> r1, exc |-> NoExc]
        ELSE [result |-> [r1 EXCEPT
                            !.completion_tokens =
                                IF chunk.ct # 0 THEN chunk.ct ELSE @,
                            !.prompt_tokens =
                                IF chunk.pt # 0 THEN chunk.pt ELSE @],
              exc |-> NoExc]

\* The non-streaming branch (lines 161-165) on the decoded body `data`.
JsonResult(result, data, now, t0) ==
    IF data.kind = "raise"
    THEN [result |-> result, exc |-> data.exc]
    ELSE IF data.kind # "json"
    THEN [result |-> result, exc |-> JSONDecodeError]
    ELSE LET r1 == [result EXCEPT !.total_time_s = now - t0]
         IN  IF data.top # "object" \/ data.usage \in {"null", "string"}
             THEN [result |-> r1, exc |-> AttributeError]
             ELSE IF data.usage = "absent"
             THEN [result |-> [r1 EXCEPT !.prompt_tokens = 0,
                                         !.completion_tokens = 0],
                   exc |-> NoExc]
             ELSE [result |-> [r1 EXCEPT !.prompt_tokens = data.pt,
                                         !.completion_tokens = data.ct],
                   exc |-> NoExc]

\* lines 167-168
TokensPerSec(result) ==
    IF result.completion_tokens # 0 /\ result.total_time_s > 0
    THEN [result EXCEPT
            !.tokens_per_sec =
                RoundRatio(result.completion_tokens * 1000,
                           result.total_time_s)]
    ELSE result

\* the status left out of the message
HttpErrorTextBodyOnly(status, text) == "HTTP: " \o text

\* f"HTTP {resp.status}: {await resp.text()}" (line 123)
HttpErrorText(status, text) == "HTTP " \o ToString(status) \o ": " \o text

\* lines 121-125
HttpError(result, status, text, now, t0) ==
    [result EXCEPT !.status = "error",
                   !.error = HttpErrorText(status, text),
                   !.total_time_s = now - t0]

\* the except clause (lines 170-173)
CaptureException(result, e, now, t0) ==
    [result EXCEPT !.status = "error", !.error = e.msg,
                   !.total_time_s = now - t0]

\* ------------------------------------------------------- the response

\* What the server and the transport give one request: session.post raises
\* post_exc, or the headers arrive after latency ticks with status; then
\* resp.text() gives text or raises text_exc (read when status # 200),
\* resp.content gives the items of content (read when streaming) and
\* resp.json() gives body (read when not streaming).
Response(post_exc, latency, status, text, text_exc, content, body) ==
    [post_exc |-> post_exc, latency |-> latency, status |-> status,
     text |-> text, text_exc |-> text_exc, content |-> content,
     body |-> body]

\* ------------------------------------------------------- send_request

\* The loop of lines 130-145 from item pos on, to its end: "exhausted",
\* "break" or "raise". Each item, and the end of the body, is awaited for
\* one tick.
RECURSIVE ConsumeStream(_, _, _, _)
ConsumeStream(loc, content, pos, now) ==
    IF pos >= Len(content)
    THEN [loc |-> loc, ctl |-> "exhausted", exc |-> NoExc, pos |-> pos,
          now |-> now + 1]
    ELSE LET s == ProcessLine(loc, content[pos + 1], now + 1)
         IN  IF s.ctl = "continue"
             THEN ConsumeStream(s.loc, content, pos + 1, now + 1)
             ELSE [loc |-> s.loc, ctl |-> s.ctl, exc |-> s.exc,
                   pos |-> pos + 1, now |-> now + 1]

\* What leaves the try block: the result, or the exception exc raised at
\* time now. loc and pos tell how far the parser got.
Outcome(result, exc, now, loc, pos) ==
    [result |-> result, exc |-> exc, now |-> now, loc |-> loc, pos |-> pos]

\* the rate computed from whatever the result holds, as in a finally clause
AfterStreamAlwaysRates(result, loc, pos, now, t0) ==
    LET s == StreamResult(result, loc, now, t0)
    IN  Outcome(TokensPerSec(s.result), s.exc, now, loc, pos)

\* lines 147-168 once the loop has ended without an exception
AfterStream(result, loc, pos, now, t0) ==
    LET s == StreamResult(result, loc, now, t0)
    IN  Outcome(IF s.exc = NoExc THEN TokensPerSec(s.result) ELSE s.result,
                s.exc, now, loc, pos)

\* lines 161-168
NonStreamBody(result, body, now, t0) ==
    LET j == JsonResult(result, body, now, t0)
    IN  Outcome(IF j.exc = NoExc THEN TokensPerSec(j.result) ELSE j.result,
                j.exc, now, InitLocals, 0)

\* lines 121-125, the body text awaited for one tick
Non200(result, resp, now, t0) ==
    IF resp.text_exc # NoExc
    THEN Outcome(result, resp.text_exc, now + 1, InitLocals, 0)
    ELSE Outcome(HttpError(result, resp.status, resp.text, now + 1, t0),
                 NoExc, now + 1, InitLocals, 0)

\* The end of the try statement (lines 170-175): an exception is captured
\* into the result, which is returned; raised is the exception that leaves
\* send_request, NoExc when it returns.
Return(out, t0) ==
    IF out.exc = NoExc
    THEN [result |-> out.result, raised |-> NoExc, loc |-> out.loc,
          pos |-> out.pos]
    ELSE IF Catches(out.exc)
    THEN [result |-> CaptureException(out.result, out.exc, out.now, t0),
          raised |-> NoExc, loc |-> out.loc, pos |-> out.pos]
    ELSE [result |-> out.result, raised |-> out.exc, loc |-> out.loc,
          pos |-> out.pos]

\* send_request (lines 98-175) begun at time t0 and answered with resp:
\* [result, raised, loc, pos].
send_request_run(prompt, stream, resp, t0) ==
    LET result == RequestResult(prompt)
        now == t0 + resp.latency
    IN  IF resp.post_exc # NoExc
        THEN Return(Outcome(result, resp.post_exc, now, InitLocals, 0), t0)
        ELSE IF resp.status # 200
        THEN Return(Non200(result, resp, now, t0), t0)
        ELSE IF stream
        THEN LET c == ConsumeStream(InitLocals, resp.content, 0, now)
             IN  IF c.ctl = "raise"
                 THEN Return(Outcome(result, c.exc, c.now, c.loc, c.pos), t0)
                 ELSE Return(AfterStream(result, c.loc, c.pos, c.now, t0), t0)
        ELSE Return(NonStreamBody(result, resp.body, now + 1, t0), t0)

send_request(prompt, stream, resp, t0) ==
    send_request_run(prompt, stream, resp, t0).result

\* ------------------------------------------- the aggregator (run_bench)

ZeroDivisionError == [type |-> "ZeroDivisionError", msg |-> "division by zero"]

\* ok = [r for r in results if r.status == "ok"] (line 274)
OkResults(rs) == SelectSeq(rs, LAMBDA r : r.status = "ok")

\* sum() over integers, exact
RECURSIVE SumInts(_)
SumInts(xs) == IF xs = <<>> THEN 0 ELSE Head(xs) + SumInts(Tail(xs))

\* sum() over floats: 0 + xs[0] + xs[1] + ..., from the left, each +
\* rounded
RECURSIVE SumFloatsFrom(_, _)
SumFloatsFrom(acc, xs) ==
    IF xs = <<>> THEN acc
    ELSE SumFloatsFrom(FloatAdd(acc, Head(xs)), Tail(xs))

SumFloats(xs) == SumFloatsFrom(0, xs)

\* sorted(): x put into the ascending list xs, after the items equal to it
RECURSIVE Insert(_, _)
Insert(x, xs) ==
    IF xs = <<>> THEN <<x>>
    ELSE IF x < Head(xs) THEN <<x>> \o xs
    ELSE <<Head(xs)>> \o Insert(x, Tail(xs))

RECURSIVE sorted(_)
sorted(xs) ==
    IF xs = <<>> THEN <<>>
    ELSE Insert(xs[Len(xs)], sorted(SubSeq(xs, 1, Len(xs) - 1)))

\* max() and min() of a non-empty list
RECURSIVE MaxOf(_)
MaxOf(xs) ==
    IF Len(xs) = 1 THEN xs[1]
    ELSE LET m == MaxOf(Tail(xs)) IN IF Head(xs) >= m THEN Head(xs) ELSE m

RECURSIVE MinOf(_)
MinOf(xs) ==
    IF Len(xs) = 1 THEN xs[1]
    ELSE LET m == MinOf(Tail(xs)) IN IF Head(xs) <= m THEN Head(xs) ELSE m

\* the statistics are computed whether or not a request succeeded
NeverSkips(ok) == FALSE

\* `if not ok:` (line 277)
NoneOk(ok) == ok = <<>>

\* the upper median of an even number of items is left for the lower one
LowerMedianIndex(n) == (n - 1) \div 2

\* len(ok) // 2 (line 286), as a Python index
MedianIndex(n) == n \div 2

\* Lines 281-288 on the ok results. The first statement that divides by
\* len(ok) raises when there is none (line 283).
Statistics(ok, errs, wall_time) ==
    LET tps == [i \in DOMAIN ok |-> ok[i].tokens_per_sec]
        ttfts == SelectSeq([i \in DOMAIN ok |-> ok[i].ttft_ms],
                           LAMBDA x : x # 0)
        total_comp ==
            SumInts([i \in DOMAIN ok |-> ok[i].completion_tokens])
        total_prompt == SumInts([i \in DOMAIN ok |-> ok[i].prompt_tokens])
    IN  IF Len(ok) = 0
        THEN [outcome |-> "raised", exc |-> ZeroDivisionError]
        ELSE [outcome |-> "summary",
              ok |-> Len(ok),
              errs |-> errs,
              total_comp |-> total_comp,
              total_prompt |-> total_prompt,
              avg_tps |-> RoundRatio(SumFloats(tps), Len(ok)),
              aggregate_tps |->
                  IF wall_time # 0
                  THEN RoundRatio(total_comp * 1000, wall_time) ELSE 0,
              avg_ttft |-> RoundRatio(SumFloats(ttfts), Max(1, Len(ttfts))),
              p50 |-> sorted(tps)[MedianIndex(Len(ok)) + 1],
              fastest |-> MaxOf(tps),
              slowest |-> MinOf(tps)]

\* Lines 274-288: what run_bench makes of the drained results and the
\* wall time.
Summarize(rs, wall_time) ==
    LET ok == OkResults(rs)
        errs == Len(rs) - Len(ok)
    IN  IF NoneOk(ok)
        THEN [outcome |-> "all_failed", ok |-> 0, errs |-> errs]
        ELSE Statistics(ok, errs, wall_time)

\* no summary yet
NoSummary == [outcome |-> "none"]

\* ------------------------------------------- the inputs of the model

\* two of SMALL_PROMPTS (lines 30-46)
Prompts == {"What is 2 + 2?", "Name three primary colors."}

\* values of perf_counter() when a request starts
StartTimes == {0, 2}

\* ticks from the POST to the response headers
Latencies == {1, 2}

\* the wall time of a batch, in ticks (line 270); the aggregation is
\* examined over several wall times under SpecAgg
WallTimes == {5}

\* The lines a server can send: keep-alive, sentinel, undecodable payload,
\* a JSON list, content deltas ("Hel", a 14-character fragment, an empty
\* one with usage null), usage blocks (with choices [{}], with choices [],
\* with zero counts, not an object), and the transport failing.
LineKinds ==
    {KeepAlive, Done, BadLine, NonObject,
     Event("list", 3, "absent", 0, 0),
     Event("list", 14, "absent", 0, 0),
     Event("list", 0, "null", 0, 0),
     Event("list", 0, "object", 5, 7),
     Event("empty", 0, "object", 5, 7),
     Event("absent", 0, "object", 0, 0),
     Event("absent", 0, "string", 0, 0),
     RaiseLine(TimeoutError)}

\* every body of at most n lines
Streams(n) == UNION {[1..k -> LineKinds] : k \in 0..n}

\* what resp.json() can give: usage with counts, without, null, no usage
\* key, a JSON list, not JSON, the transport failing
JsonBodies ==
    {Event("list", 0, "object", 5, 7), Event("list", 0, "object", 0, 0),
     Event("list", 0, "null", 0, 0), Event("list", 0, "absent", 0, 0),
     NonObject, BadLine, RaiseLine(TimeoutError)}

\* session.post raising
PostFailures ==
    {Response(e, l, 0, "", NoExc, <<>>, NoChunk) :
        e \in TransportErrors, l \in Latencies}

\* a status other than 200, its text read or failing to be read
Non200s ==
    {Response(NoExc, l, 500, "overloaded", NoExc, <<>>, NoChunk) :
        l \in Latencies}
    \cup {Response(NoExc, 1, 404, "", NoExc, <<>>, NoChunk),
          Response(NoExc, 1, 503, "", ServerDisconnectedError, <<>>,
                   NoChunk)}

\* the responses one request can get, by mode
Responses(stream) ==
    PostFailures \cup Non200s \cup
    IF stream
    THEN {Response(NoExc, 1, 200, "", NoExc, c, NoChunk) :
            c \in Streams(MaxLines)}
    ELSE {Response(NoExc, l, 200, "", NoExc, <<>>, b) :
            l \in Latencies, b \in JsonBodies}

\* ------------------------------------------------------------- the state

VARIABLES
    stream,       \* args.stream
    \* one call of send_request (SpecReq)
    prompt,       \* its argument
    resp,         \* the response it is given
    now,          \* perf_counter()
    t0,           \* line 116
    req_pc,       \* "start", "posted", "streaming", "returned", "raised"
    result,       \* line 107
    loc,          \* completion_text, last_chunk, first_token_time
    pos,          \* items of resp.content read so far
    \* run_bench (Spec)
    prompts,      \* line 226
    parallel,     \* args.parallel
    sem,          \* the value of the semaphore of line 233
    task_pc,      \* per task of line 258: "waiting", "inflight", "done"
    slots,        \* per task, the slots of sem it holds
    task_result,  \* per task, what bounded(p) returned
    task_raised,  \* per task, the exception bounded(p) raised, or NoExc
    task_resp,    \* per task, the name of the response it was given
    posts,        \* per task, the calls of session.post it has made
    finished,     \* the tasks in the order they finished (as_completed)
    results,      \* line 253
    run_pc,       \* "start", "draining", "drained", "reported", "aborted"
    \* the end of run_bench (Spec), the aggregator alone (SpecAgg)
    wall,         \* line 270
    summary,      \* what lines 274-288 compute
    \* the resource sampler (SpecRam)
    has_psutil,   \* HAS_PSUTIL
    total_gb,     \* RamMonitor._total_gb
    samples,      \* RamMonitor.samples
    ram_stop,     \* RamMonitor._stop
    sampler_pc,   \* the thread of _run: "none", "check", "sample", "sleep",
                  \* "exited"
    ram_pc,       \* run_bench as the sampler sees it: "init", "running",
                  \* "stopped", then the reads of summary(), "done"
    ram_info      \* the dict summary() builds

reqVars == <<prompt, resp, now, t0, req_pc, result, loc, pos>>
benchVars == <<prompts, parallel, sem, task_pc, slots, task_result,
               task_raised, task_resp, posts, finished, results, run_pc>>
aggVars == <<wall, summary>>
ramVars == <<has_psutil, total_gb, samples, ram_stop, sampler_pc, ram_pc, ram_info>>
vars == <<stream, reqVars, benchVars, aggVars, ramVars>>

\* no response yet
NoResponse == Response(NoExc, 0, 0, "", NoExc, <<>>, NoChunk)

\* no request of its own is running (Spec)
ReqIdle ==
    /\ prompt = ""
    /\ resp = NoResponse
    /\ now = 0
    /\ t0 = 0
    /\ req_pc = "idle"
    /\ result = RequestResult("")
    /\ loc = InitLocals
    /\ pos = 0

\* no batch is running (SpecReq)
BenchIdle ==
    /\ prompts = <<>>
    /\ parallel = 0
    /\ sem = 0
    /\ task_pc = <<>>
    /\ slots = <<>>
    /\ task_result = <<>>
    /\ task_raised = <<>>
    /\ task_resp = <<>>
    /\ posts = <<>>
    /\ finished = <<>>
    /\ results = <<>>
    /\ run_pc = "idle"

\* nothing is aggregated
AggIdle ==
    /\ wall = 0
    /\ summary = NoSummary

\* no sampler is made
RamIdle ==
    /\ has_psutil = FALSE
    /\ total_gb = 0
    /\ samples = <<>>
    /\ ram_stop = FALSE
    /\ sampler_pc = "none"
    /\ ram_pc = "idle"
    /\ ram_info = <<>>

\* ---------------------------------------- SpecReq: one send_request call

InitReq ==
    /\ stream \in BOOLEAN
    /\ prompt \in Prompts
    /\ resp \in Responses(stream)
    /\ now \in StartTimes
    /\ t0 = 0
    /\ req_pc = "start"
    /\ result = RequestResult(prompt)
    /\ loc = InitLocals
    /\ pos = 0
    /\ BenchIdle
    /\ AggIdle
    /\ RamIdle

\* How the call ends with outcome `out` (lines 170-175). 
ReqReturn(out) ==
    LET r == Return(out, t0)
    IN  /\ result' = r.result
        /\ req_pc' = IF r.raised = NoExc THEN "returned" ELSE "raised"
        /\ now' = out.now

\* lines 107-120: the result is made, the clock is read, the POST is sent
ReqPost ==
    /\ req_pc = "start"
    /\ t0' = now
    /\ req_pc' = "posted"
    /\ UNCHANGED <<stream, prompt, resp, now, result, loc, pos, benchVars, aggVars, ramVars>>

\* session.post raises (line 120)
ReqPostFails ==
    /\ req_pc = "posted"
    /\ resp.post_exc # NoExc
    /\ ReqReturn(Outcome(result, resp.post_exc, now + resp.latency, loc, pos))
    /\ UNCHANGED <<stream, prompt, resp, t0, loc, pos, benchVars, aggVars, ramVars>>

\* the headers arrive with a status other than 200 (lines 121-125)
ReqNon200 ==
    /\ req_pc = "posted"
    /\ resp.post_exc = NoExc
    /\ resp.status # 200
    /\ ReqReturn(Non200(result, resp, now + resp.latency, t0))
    /\ UNCHANGED <<stream, prompt, resp, t0, loc, pos, benchVars, aggVars, ramVars>>

\* status 200, streaming: the loop of line 130 is entered
ReqStartStream ==
    /\ req_pc = "posted"
    /\ resp.post_exc = NoExc
    /\ resp.status = 200
    /\ stream
    /\ now' = now + resp.latency
    /\ loc' = InitLocals
    /\ req_pc' = "streaming"
    /\ UNCHANGED <<stream, prompt, resp, t0, result, pos, benchVars, aggVars, ramVars>>

\* status 200, not streaming (lines 161-168)
ReqJson ==
    /\ req_pc = "posted"
    /\ resp.post_exc = NoExc
    /\ resp.status = 200
    /\ ~stream
    /\ ReqReturn(NonStreamBody(result, resp.body, now + resp.latency + 1, t0))
    /\ UNCHANGED <<stream, prompt, resp, t0, loc, pos, benchVars, aggVars, ramVars>>

\* one iteration of the loop (lines 130-145); on [DONE] the rest of the
\* try block runs (lines 147-168), on an exception the except clause
ReqReadLine ==
    /\ req_pc = "streaming"
    /\ pos < Len(resp.content)
    /\ LET s == ProcessLine(loc, resp.content[pos + 1], now + 1)
       IN  /\ loc' = s.loc
           /\ pos' = pos + 1
           /\ IF s.ctl = "continue"
              THEN /\ now' = now + 1
                   /\ UNCHANGED <<req_pc, result>>
              ELSE IF s.ctl = "break"
              THEN ReqReturn(AfterStream(result, s.loc, pos + 1, now + 1, t0))
              ELSE ReqReturn(Outcome(result, s.exc, now + 1, s.loc, pos + 1))
    /\ UNCHANGED <<stream, prompt, resp, t0, benchVars, aggVars, ramVars>>

\* the body ends without [DONE]: the loop is left (lines 147-168)
ReqEndOfStream ==
    /\ req_pc = "streaming"
    /\ pos = Len(resp.content)
    /\ ReqReturn(AfterStream(result, loc, pos, now + 1, t0))
    /\ UNCHANGED <<stream, prompt, resp, t0, loc, pos, benchVars, aggVars, ramVars>>

NextReq ==
    \/ ReqPost
    \/ ReqPostFails
    \/ ReqNon200
    \/ ReqStartStream
    \/ ReqJson
    \/ ReqReadLine
    \/ ReqEndOfStream

SpecReq == InitReq /\ [][NextReq]_vars

\* ------------------------------------------------------ Spec: run_bench

\* The responses the workers of a batch get, by name: a completed stream
\* ("Hel", usage, [DONE]; the same usage when not streaming), HTTP 500, and
\* a body that fails (a timeout in the middle of the stream; not JSON when
\* not streaming).
BenchResponseNames == {"completed", "http500", "broken"}

BenchResponse(name) ==
    IF name = "completed"
    THEN Response(NoExc, 1, 200, "", NoExc,
                  <<Event("list", 3, "absent", 0, 0),
                    Event("list", 0, "object", 5, 7), Done>>,
                  Event("list", 0, "object", 5, 7))
    ELSE IF name = "http500"
    THEN Response(NoExc, 1, 500, "overloaded", NoExc, <<>>, NoChunk)
    ELSE Response(NoExc, 1, 200, "", NoExc,
                  <<Event("list", 3, "absent", 0, 0),
                    RaiseLine(TimeoutError)>>,
                  BadLine)

\* The name of the server behaviour a response record stands for.
ResponseName(r) ==
    CHOOSE name \in BenchResponseNames : BenchResponse(name) = r

N == Len(prompts)
Tasks == 1..N

\* bounded without the gate: send_request is called at once
NoGate(value) == TRUE

\* asyncio.Semaphore.acquire returns when the value is positive
\* (`async with sem`, line 236)
CanAcquire(value) == value > 0

\* acquire and release written out by hand, the release after the call
\* and only when it gave an ok result
ReleaseOnSuccess(value, r, e) ==
    IF e = NoExc /\ r.status = "ok" THEN value + 1 ELSE value

\* `async with sem` releases the slot when its block is left, whether
\* send_request returned `r` or raised `e` (line 236)
ReleaseOnExit(value, r, e) == value + 1

\* a worker that sends a failed request again: it queues at the gate once
\* more instead of returning the error result
RetryOnError(r) == IF r.status = "error" THEN "waiting" ELSE "done"

\* `return await send_request(...)` (line 237): whatever the result is, the
\* worker returns it and ends
OnResult(r) == "done"

\* the tasks awaited one after the other as they were submitted
\* (`for t in tasks: r = await t`): the finished prefix of the task list
in_submission_order(done) ==
    LET k == CHOOSE k \in 0..Len(done) :
                 /\ \A i \in 1..k : \E j \in 1..Len(done) : done[j] = i
                 /\ ~(\E j \in 1..Len(done) : done[j] = k + 1)
    IN  [i \in 1..k |-> i]

\* asyncio.as_completed (line 259) yields the tasks in the order they
\* finished: the tasks it can have yielded so far, in order
as_completed(done) == done

\* the state at line 233, the semaphore made
Init ==
    /\ stream \in BOOLEAN
    /\ prompts \in UNION {[1..n -> Prompts] : n \in 0..MaxRequests}
    /\ parallel \in 0..MaxParallel
    /\ sem = parallel
    /\ task_pc = <<>>
    /\ slots = <<>>
    /\ task_result = <<>>
    /\ task_raised = <<>>
    /\ task_resp = <<>>
    /\ posts = <<>>
    /\ finished = <<>>
    /\ results = <<>>
    /\ run_pc = "start"
    /\ ReqIdle
    /\ AggIdle
    /\ RamIdle

\* tasks = [asyncio.create_task(bounded(p)) for p in prompts] (line 258)
CreateTasks ==
    /\ run_pc = "start"
    /\ task_pc' = [w \in Tasks |-> "waiting"]
    /\ slots' = [w \in Tasks |-> 0]
    /\ task_result' = [w \in Tasks |-> RequestResult("")]
    /\ task_raised' = [w \in Tasks |-> NoExc]
    /\ task_resp' = [w \in Tasks |-> "none"]
    /\ posts' = [w \in Tasks |-> 0]
    /\ run_pc' = "draining"
    /\ UNCHANGED <<stream, reqVars, aggVars, ramVars, prompts, parallel, sem,
                   finished, results>>

\* bounded(p) acquires a slot and runs send_request up to its POST
\* (lines 236-237, 107-120). The event loop starts the tasks in the order
\* they were created and the semaphore wakes its waiters first-in
\* first-out, so the slots go to the tasks in submission order.
Admit(w) ==
    /\ run_pc = "draining"
    /\ w \in Tasks
    /\ task_pc[w] = "waiting"
    /\ \A v \in 1..(w - 1) : task_pc[v] # "waiting"
    /\ CanAcquire(sem)
    /\ sem' = sem - 1
    /\ slots' = [slots EXCEPT ![w] = @ + 1]
    /\ task_pc' = [task_pc EXCEPT ![w] = "inflight"]
    /\ posts' = [posts EXCEPT ![w] = @ + 1]
    /\ UNCHANGED <<stream, reqVars, aggVars, ramVars, prompts, parallel,
                   task_result, task_raised, task_resp, finished, results,
                   run_pc>>

\* the rest of send_request on the response the worker gets, the release
\* of the slot and the end of the task (lines 120-175, 236-240)
Finish(w) ==
    /\ run_pc = "draining"
    /\ w \in Tasks
    /\ task_pc[w] = "inflight"
    /\ \E r \in {BenchResponse(n) : n \in BenchResponseNames},
          t \in StartTimes :
          LET run == send_request_run(prompts[w], stream, r, t)
          IN  /\ task_resp' = [task_resp EXCEPT ![w] = ResponseName(r)]
              /\ task_result' = [task_result EXCEPT ![w] = run.result]
              /\ task_raised' = [task_raised EXCEPT ![w] = run.raised]
              /\ sem' = ReleaseOnExit(sem, run.result, run.raised)
              /\ slots' = [slots EXCEPT ![w] = @ - (sem' - sem)]
              /\ task_pc' = [task_pc EXCEPT ![w] = OnResult(run.result)]
              /\ finished' = IF task_pc'[w] = "done"
                             THEN Append(finished, w) ELSE finished
    /\ UNCHANGED <<stream, reqVars, aggVars, ramVars, prompts, parallel,
                   posts, results, run_pc>>

\* one iteration of the drain loop (lines 259-261): the next finished task
\* is awaited; its exception, if it raised one, leaves run_bench
Drain ==
    /\ run_pc = "draining"
    /\ Len(as_completed(finished)) > Len(results)
    /\ LET w == as_completed(finished)[Len(results) + 1]
       IN  IF task_raised[w] # NoExc
           THEN /\ run_pc' = "aborted"
                /\ UNCHANGED results
           ELSE /\ results' = Append(results, task_result[w])
                /\ UNCHANGED run_pc
    /\ UNCHANGED <<stream, reqVars, aggVars, ramVars, prompts, parallel, sem,
                   task_pc, slots, task_result, task_raised, task_resp,
                   posts, finished>>

\* as_completed is exhausted: the loop and the session are left and the
\* wall time is taken (line 270)
EndLoop ==
    /\ run_pc = "draining"
    /\ Len(results) = N
    /\ run_pc' = "drained"
    /\ wall' \in WallTimes
    /\ UNCHANGED <<stream, reqVars, summary, ramVars, prompts, parallel, sem,
                   task_pc, slots, task_result, task_raised, task_resp,
                   posts, finished, results>>

\* lines 274-288: the results are aggregated and run_bench returns
Report ==
    /\ run_pc = "drained"
    /\ summary' = Summarize(results, wall)
    /\ run_pc' = "reported"
    /\ UNCHANGED <<stream, reqVars, wall, ramVars, prompts, parallel, sem,
                   task_pc, slots, task_result, task_raised, task_resp,
                   posts, finished, results>>

Next ==
    \/ CreateTasks
    \/ \E w \in Tasks : Admit(w)
    \/ \E w \in Tasks : Finish(w)
    \/ Drain
    \/ EndLoop
    \/ Report

Spec == Init /\ [][Next]_vars

\* The event loop runs every task that can run, every request is answered
\* (the transport's timeout bounds it), and run_bench itself is scheduled.
\* Nothing is asked of what follows the drain loop.
Fairness ==
    /\ WF_vars(CreateTasks)
    /\ \A w \in 1..MaxRequests : WF_vars(Admit(w)) /\ WF_vars(Finish(w))
    /\ WF_vars(Drain)
    /\ WF_vars(EndLoop)

LiveSpec == Spec /\ Fairness

\* ------------------------------------- SpecAgg: the aggregator alone

\* an ok result of `ct` completion tokens received in `total` seconds
OkResult(ct, pt, total, ttft) ==
    TokensPerSec([RequestResult("What is 2 + 2?") EXCEPT
                    !.total_time_s = total, !.completion_tokens = ct,
                    !.prompt_tokens = pt, !.ttft_ms = ttft])

\* The results the aggregator is tried on: slow requests (100 s each, 1 to
\* 4 tokens: 0.010 to 0.040 tokens per second, 10 to 40 thousandths), some
\* with a TTFT, and a failed one.
AggResults ==
    {OkResult(1, 7, 100, 2048), OkResult(2, 7, 100, 0),
     OkResult(3, 0, 100, 1024), OkResult(4, 7, 100, 0),
     HttpError(RequestResult("What is 2 + 2?"), 500, "overloaded", 1, 0)}

\* wall times of such batches, in seconds
AggWallTimes == {100, 250}

\* run_bench at line 270 with any list of results drained: every task is
\* done and its result is in the list.
InitAgg ==
    /\ stream \in BOOLEAN
    /\ results \in UNION {[1..n -> AggResults] : n \in 0..MaxResults}
    /\ prompts = [i \in DOMAIN results |-> results[i].prompt]
    /\ parallel = 1
    /\ sem = 1
    /\ task_pc = [i \in DOMAIN results |-> "done"]
    /\ slots = [i \in DOMAIN results |-> 0]
    /\ task_result = results
    /\ task_raised = [i \in DOMAIN results |-> NoExc]
    /\ task_resp = [i \in DOMAIN results |-> "none"]
    /\ posts = [i \in DOMAIN results |-> 1]
    /\ finished = [i \in DOMAIN results |-> i]
    /\ run_pc = "drained"
    /\ wall \in AggWallTimes
    /\ summary = NoSummary
    /\ ReqIdle
    /\ RamIdle

SpecAgg == InitAgg /\ [][Report]_vars

\* ------------------------------------ SpecRam: the resource sampler

\* used memory in GB, as psutil reports it
SampleValues == {3, 5}

\* ram = RamMonitor() (lines 250, 185-189)
InitRam ==
    /\ stream \in BOOLEAN
    /\ has_psutil \in BOOLEAN
    /\ total_gb = 0
    /\ samples = <<>>
    /\ ram_stop = FALSE
    /\ sampler_pc = "none"
    /\ ram_pc = "init"
    /\ ram_info = <<>>
    /\ ReqIdle
    /\ BenchIdle
    /\ AggIdle

ramOther == <<stream, reqVars, benchVars, aggVars>>

\* ram.start() (lines 251, 191-198): without psutil nothing is started
RamStart ==
    /\ ram_pc = "init"
    /\ ram_pc' = "running"
    /\ IF has_psutil
       THEN /\ ram_stop' = FALSE
            /\ total_gb' = 16
            /\ sampler_pc' = "check"
       ELSE UNCHANGED <<ram_stop, total_gb, sampler_pc>>
    /\ UNCHANGED <<ramOther, has_psutil, samples, ram_info>>

\* `while not self._stop` (line 204)
SamplerCheck ==
    /\ sampler_pc = "check"
    /\ sampler_pc' = IF ram_stop THEN "exited" ELSE "sample"
    /\ UNCHANGED <<ramOther, has_psutil, total_gb, samples, ram_stop, ram_pc,
                   ram_info>>

\* lines 205-206: the memory is read and the sample appended
SamplerSample ==
    /\ sampler_pc = "sample"
    /\ Len(samples) < MaxSamples
    /\ \E v \in SampleValues : samples' = Append(samples, v)
    /\ sampler_pc' = "sleep"
    /\ UNCHANGED <<ramOther, has_psutil, total_gb, ram_stop, ram_pc, ram_info>>

\* time.sleep(self.interval) returns (line 207)
SamplerWake ==
    /\ sampler_pc = "sleep"
    /\ sampler_pc' = "check"
    /\ UNCHANGED <<ramOther, has_psutil, total_gb, samples, ram_stop, ram_pc,
                   ram_info>>

\* ram.stop() (lines 271, 200-201), after the batch, however long it took:
\* the flag is set, the thread is not waited for
RamStop ==
    /\ ram_pc = "running"
    /\ ram_stop' = TRUE
    /\ ram_pc' = "stopped"
    /\ UNCHANGED <<ramOther, has_psutil, total_gb, samples, sampler_pc,
                   ram_info>>

\* ram.summary() (lines 272, 209-211): `if not self.samples: return {}`
SummaryCheck ==
    /\ ram_pc = "stopped"
    /\ ram_pc' = IF samples = <<>> THEN "done" ELSE "read_start"
    /\ UNCHANGED <<ramOther, has_psutil, total_gb, samples, ram_stop,
                   sampler_pc, ram_info>>

\* lines 213-214: total_gb and start_gb
ReadStart ==
    /\ ram_pc = "read_start"
    /\ ram_info' = [total_gb |-> total_gb, start_gb |-> samples[1]]
    /\ ram_pc' = "read_peak"
    /\ UNCHANGED <<ramOther, has_psutil, total_gb, samples, ram_stop,
                   sampler_pc>>

\* line 215: max(self.samples)
ReadPeak ==
    /\ ram_pc = "read_peak"
    /\ ram_info' = ram_info @@ [peak_gb |-> MaxOf(samples)]
    /\ ram_pc' = "read_sum"
    /\ UNCHANGED <<ramOther, has_psutil, total_gb, samples, ram_stop,
                   sampler_pc>>

\* line 216, left operand: sum(self.samples)
ReadSum ==
    /\ ram_pc = "read_sum"
    /\ ram_info' = ram_info @@ [sum |-> SumFloats(samples)]
    /\ ram_pc' = "read_len"
    /\ UNCHANGED <<ramOther, has_psutil, total_gb, samples, ram_stop,
                   sampler_pc>>

\* line 216, right operand and the division: / len(self.samples)
ReadLen ==
    /\ ram_pc = "read_len"
    /\ ram_info' = [total_gb |-> ram_info.total_gb,
                    start_gb |-> ram_info.start_gb,
                    peak_gb |-> ram_info.peak_gb,
                    avg_gb |-> RoundRatio(ram_info.sum, Len(samples))]
    /\ ram_pc' = "read_end"
    /\ UNCHANGED <<ramOther, has_psutil, total_gb, samples, ram_stop,
                   sampler_pc>>

\* line 217: self.samples[-1], and the dict is returned
ReadEnd ==
    /\ ram_pc = "read_end"
    /\ ram_info' = ram_info @@ [end_gb |-> samples[Len(samples)]]
    /\ ram_pc' = "done"
    /\ UNCHANGED <<ramOther, has_psutil, total_gb, samples, ram_stop,
                   sampler_pc>>

NextRam ==
    \/ RamStart
    \/ SamplerCheck
    \/ SamplerSample
    \/ SamplerWake
    \/ RamStop
    \/ SummaryCheck
    \/ ReadStart
    \/ ReadPeak
    \/ ReadSum
    \/ ReadLen
    \/ ReadEnd

SpecRam == InitRam /\ [][NextRam]_vars

\* ---------------------------------------------------- claims on run_bench

\* the tasks holding a slot of the gate
Holders == {w \in DOMAIN slots : slots[w] > 0}

RECURSIVE SumSlots(_)
SumSlots(S) ==
    IF S = {} THEN 0
    ELSE LET w == CHOOSE w \in S : TRUE IN slots[w] + SumSlots(S \ {w})

Count(seq, p) == Cardinality({i \in DOMAIN seq : seq[i] = p})

AllDone == \A w \in DOMAIN task_pc : task_pc[w] = "done"

\* the response is a failure of the request: the POST raises, the status
\* is not 200, or the body cannot be read to its end
Failure(r) ==
    \/ r.post_exc # NoExc
    \/ r.status # 200
    \/ /\ stream
       /\ \E i \in 1..Len(r.content) :
             /\ r.content[i].kind = "raise"
             /\ \A j \in 1..(i - 1) : r.content[j].kind # "done"
    \/ ~stream /\ r.body.kind \in {"raise", "bad"}

\* C1: at most C (= parallel) workers hold an admission slot, and a worker
\* whose HTTP call has begun and not yet ended holds one.
C1_AtMostCInFlight ==
    /\ Cardinality(Holders) <= parallel
    /\ \A w \in DOMAIN task_pc : task_pc[w] = "inflight" => slots[w] >= 1

\* C1 witness: the gate is full (two calls in flight) and a third worker
\* waits on it.
C1_GateFull ==
    /\ parallel = 2
    /\ Cardinality({w \in DOMAIN task_pc : task_pc[w] = "inflight"}) = 2
    /\ \E w \in DOMAIN task_pc : task_pc[w] = "waiting"

\* every prompt has its result: N results, the prompts of the results are
\* the submitted prompts counted with multiplicity, and no worker waits
AllDrained ==
    /\ run_pc = "drained"
    /\ Len(results) = N
    /\ \A p \in Prompts :
          Count([i \in DOMAIN results |-> results[i].prompt], p)
              = Count(prompts, p)
    /\ AllDone

\* C2 as stated: for every cap C <= N, run_bench eventually drains exactly
\* N results, one per submitted prompt.
C2_AsStated == (parallel <= N) => <>AllDrained

\* C2 amended: for every cap C >= 1 (and for an empty batch), run_bench
\* eventually drains exactly N results, one per submitted prompt, and no
\* worker waits on the gate forever.
C2_DrainsAll == (parallel >= 1 \/ N = 0) => <>AllDrained

\* C2 witness: a batch of three behind a gate of two is drained, with a
\* failed request among them.
C2_Drained ==
    /\ AllDrained
    /\ N = 3
    /\ parallel = 2
    /\ \E i \in DOMAIN results : results[i].status = "error"

\* C3: free slots + held slots = C, each worker holds at most one slot,
\* and once every worker has finished all C slots are free, whatever the
\* results were.
C3_SlotsBalanced ==
    /\ sem + SumSlots(DOMAIN slots) = parallel
    /\ \A w \in DOMAIN slots : slots[w] \in {0, 1}
    /\ (run_pc # "start" /\ AllDone) => sem = parallel

\* C3 witness: every worker has finished, more workers than slots, one
\* with an ok result, one with a non-200 response, one with a captured
\* exception.
C3_AllExitPaths ==
    /\ run_pc # "start"
    /\ AllDone
    /\ N > parallel
    /\ \E w \in DOMAIN task_pc : task_result[w].status = "ok"
    /\ \E w \in DOMAIN task_pc : task_resp[w] = "http500"
    /\ \E w \in DOMAIN task_pc : task_resp[w] = "broken"

\* C4: a failed request leaves send_request as a result with status error,
\* never as an exception; the drain loop is never aborted; and every
\* finished task's result is the one its own prompt and its own response
\* give, whatever happened to the other requests.
C4_FailureContained ==
    /\ run_pc # "aborted"
    /\ \A w \in DOMAIN task_pc :
          task_pc[w] = "done" =>
             /\ task_raised[w] = NoExc
             /\ Failure(BenchResponse(task_resp[w])) =>
                   task_result[w].status = "error"
             /\ ~Failure(BenchResponse(task_resp[w])) =>
                   task_result[w].status = "ok"
             /\ \E t \in StartTimes :
                   task_result[w] =
                       send_request(prompts[w], stream,
                                    BenchResponse(task_resp[w]), t)

\* C4 witness: a request that timed out finished first, a later request
\* succeeded, and both results were drained.
C4_FailedThenOk ==
    /\ run_pc = "drained"
    /\ Len(results) >= 2
    /\ task_resp[finished[1]] = "broken"
    /\ results[1].status = "error"
    /\ results[2].status = "ok"

\* C10: the results list is the finished tasks' results in the order the
\* tasks finished, each task once; and the list only grows at its end.
C10_CompletionOrder ==
    /\ [](/\ Len(results) <= Len(finished)
          /\ \A i \in 1..Len(results) : results[i] = task_result[finished[i]]
          /\ \A i, j \in 1..Len(finished) :
                finished[i] = finished[j] => i = j)
    /\ [][/\ Len(results') >= Len(results)
          /\ \A i \in 1..Len(results) : results'[i] = results[i]]_vars

\* C10 witness: the second task submitted finished, and was drained,
\* before the first, with a different result.
C10_OutOfOrder ==
    /\ Len(results) >= 2
    /\ finished[1] = 2
    /\ finished[2] = 1
    /\ results[1] # results[2]

\* ------------------------------------------------- claims on send_request

Returned == req_pc = "returned"

\* the call got status 200 and reads the body as a stream
StreamPath == stream /\ resp.post_exc = NoExc /\ resp.status = 200

\* a decoded event the loop processes without raising
WellFormed(e) == e.kind = "json" /\ e.top = "object" /\ e.choices # "empty"

\* the last line read so far whose payload json.loads decoded
LastDecoded ==
    LET S == {i \in 1..pos : resp.content[i].kind = "json"}
    IN  IF S = {} THEN NoChunk
        ELSE resp.content[CHOOSE i \in S : \A j \in S : j <= i]

\* seq without its i-th element
RemoveAt(seq, i) ==
    [k \in 1..(Len(seq) - 1) |-> IF k < i THEN seq[k] ELSE seq[k + 1]]

\* what C6 compares of a run of send_request
Observed(r, l) ==
    [status |-> r.status, text |-> l.completion_text,
     completion_tokens |-> r.completion_tokens,
     prompt_tokens |-> r.prompt_tokens, has_ttft |-> r.ttft_ms # 0]

\* C5 as stated: an ok streamed result has the completion_tokens (resp.
\* prompt_tokens) of every processed well-formed event that reports one,
\* wherever in the stream the event is.
C5_AsStated ==
    (Returned /\ StreamPath /\ result.status = "ok") =>
        \A i \in 1..pos :
            LET e == resp.content[i]
            IN  (WellFormed(e) /\ e.usage = "object") =>
                   /\ e.ct # 0 => result.completion_tokens = e.ct
                   /\ e.pt # 0 => result.prompt_tokens = e.pt

\* C5 amended: an ok streamed result has the non-zero completion_tokens
\* (resp. prompt_tokens) reported by the usage block of the last event
\* decoded before the stream ended or [DONE] was read.
C5_LastEventUsage ==
    (Returned /\ StreamPath /\ result.status = "ok") =>
        LET e == LastDecoded
        IN  e.usage = "object" =>
               /\ e.ct # 0 => result.completion_tokens = e.ct
               /\ e.pt # 0 => result.prompt_tokens = e.pt

\* C5 witness: "Hel", then a usage block {5, 7}, then [DONE]: the result
\* has 5 completion tokens where the estimate for 3 characters is 1.
C5_UsageOverridesEstimate ==
    /\ Returned
    /\ StreamPath
    /\ pos = 3
    /\ resp.content[1] = Event("list", 3, "absent", 0, 0)
    /\ resp.content[2] = Event("list", 0, "object", 5, 7)
    /\ resp.content[3] = Done
    /\ result.status = "ok"
    /\ result.completion_tokens = 5
    /\ result.prompt_tokens = 7

\* C6: the result of a stream with an undecodable data line is that of the
\* same stream without the line: same status, accumulated content length,
\* completion_tokens, prompt_tokens and presence of a TTFT.
C6_BadLineIgnored ==
    (Returned /\ StreamPath) =>
        \A i \in 1..Len(resp.content) :
            resp.content[i] = BadLine =>
               LET without == [resp EXCEPT !.content = RemoveAt(@, i)]
                   run == send_request_run(prompt, stream, without, t0)
               IN  Observed(run.result, run.loc) = Observed(result, loc)

\* C6 witness: an undecodable line between "Hel" and a 14-character
\* fragment; the result is ok with the 17 characters and their 4 tokens.
C6_BadLineSandwiched ==
    /\ Returned
    /\ StreamPath
    /\ pos = 3
    /\ resp.content[1] = Event("list", 3, "absent", 0, 0)
    /\ resp.content[2] = BadLine
    /\ resp.content[3] = Event("list", 14, "absent", 0, 0)
    /\ result.status = "ok"
    /\ loc.completion_text = 17
    /\ result.completion_tokens = 4
    /\ result.ttft_ms # 0

\* C7: no line is read after a [DONE] line was read, and the result and
\* the parser's locals are those of the stream cut after the sentinel.
C7_NothingAfterDone ==
    StreamPath =>
        /\ \A i \in 1..(pos - 1) : resp.content[i].kind # "done"
        /\ (Returned /\ pos >= 1 /\ resp.content[pos].kind = "done") =>
              LET cut == [resp EXCEPT !.content = SubSeq(@, 1, pos)]
                  run == send_request_run(prompt, stream, cut, t0)
              IN  result = run.result /\ loc = run.loc

\* C7 witness: "Hel", [DONE], then a usage block that is never read: the
\* result keeps the estimate of 1 token and no prompt tokens.
C7_LinesAfterDone ==
    /\ Returned
    /\ StreamPath
    /\ pos = 2
    /\ Len(resp.content) = 3
    /\ resp.content[2] = Done
    /\ resp.content[3] = Event("list", 0, "object", 5, 7)
    /\ loc.completion_text = 3
    /\ result.status = "ok"
    /\ result.completion_tokens = 1
    /\ result.prompt_tokens = 0

\* C8: a returned result is either ok with an empty error and its
\* total_time_s recorded, or error with a non-empty error, and not both.
C8_OkXorError ==
    Returned =>
        ((result.status = "ok" /\ result.error = ""
              /\ result.total_time_s > 0)
         # (result.status = "error" /\ result.error # ""))

\* what C9 says of every response with a status other than 200
Non200Contained ==
    /\ result.status = "error"
    /\ result.tokens_per_sec = 0
    /\ result.completion_tokens = 0
    /\ result.prompt_tokens = 0
    /\ result.ttft_ms = 0
    /\ pos = 0
    /\ loc = InitLocals

\* C9 as stated: a response with a status other than 200 gives an error
\* result with error = "HTTP <status>: <body>", no tokens, no rate, no
\* TTFT, and its body reaches neither the parser nor the usage path.
C9_AsStated ==
    (Returned /\ resp.post_exc = NoExc /\ resp.status # 200) =>
        /\ Non200Contained
        /\ result.error =
               "HTTP " \o ToString(resp.status) \o ": " \o resp.text

\* C9 amended: the same, with error = "HTTP <status>: <body>" when the
\* body text was read, and the exception's message when reading it raised.
C9_Non200 ==
    (Returned /\ resp.post_exc = NoExc /\ resp.status # 200) =>
        /\ Non200Contained
        /\ resp.text_exc = NoExc =>
              /\ result.error =
                     "HTTP " \o ToString(resp.status) \o ": " \o resp.text
              /\ (resp.status = 500 /\ resp.text = "overloaded") =>
                     result.error = "HTTP 500: overloaded"
        /\ resp.text_exc # NoExc => result.error = resp.text_exc.msg

\* C9 witness: status 500 with body "overloaded", streaming.
C9_Http500 ==
    /\ Returned
    /\ stream
    /\ resp.status = 500
    /\ resp.text = "overloaded"
    /\ result.status = "error"
    /\ result.error = "HTTP 500: overloaded"

\* ----------------------------------------------- claims on the aggregator

\* the list rs in the order f
Permuted(rs, f) == [i \in DOMAIN rs |-> rs[f[i]]]

\* the values C11 names, of a summary
Aggregates(sm) ==
    IF sm.outcome # "summary" THEN sm
    ELSE [outcome |-> sm.outcome, ok |-> sm.ok, errs |-> sm.errs,
          total_comp |-> sm.total_comp, total_prompt |-> sm.total_prompt,
          aggregate_tps |-> sm.aggregate_tps, avg_tps |-> sm.avg_tps,
          p50 |-> sm.p50, fastest |-> sm.fastest, slowest |-> sm.slowest]

\* C11: every permutation of the results list gives, with the same wall
\* time, the same aggregate tokens-per-second, average, median, fastest and
\* slowest values, the same ok/error counts and the same token totals.
C11_AsStated ==
    run_pc = "reported" =>
        \A f \in Permutations(DOMAIN results) :
            Aggregates(Summarize(Permuted(results, f), wall))
                = Aggregates(summary)

\* "all requests failed": no ok result, the empty list included
AllFailed == \A i \in DOMAIN results : results[i].status = "error"

\* C12: when every drained result is an error (also when there is none),
\* run_bench ends with the all-requests-failed outcome, which holds no
\* statistic; it ends that way in no other case; and no division by
\* len(ok) = 0 is ever evaluated.
C12_AllFailedSkipsSummary ==
    run_pc = "reported" =>
        /\ summary.outcome # "raised"
        /\ AllFailed <=> summary.outcome = "all_failed"
        /\ AllFailed => DOMAIN summary = {"outcome", "ok", "errs"}
        /\ AllFailed => summary.errs = Len(results)

\* C12 witness: three requests, all answered with HTTP 500, drained and
\* reported as failed.
C12_ThreeFailed ==
    /\ run_pc = "reported"
    /\ Len(results) = 3
    /\ AllFailed
    /\ summary.outcome = "all_failed"

\* the tokens_per_sec of the ok results, in list order
OkRates == LET ok == OkResults(results)
           IN  [i \in DOMAIN ok |-> ok[i].tokens_per_sec]

\* C15: the reported median is a tokens_per_sec of an ok result with at
\* most floor(n/2) values below it and at least floor(n/2) + 1 values not
\* above it (the element of rank floor(n/2) of the ascending list, counted
\* from 0, never a mean of two); for the values 10, 20, 30, 40 it is 30.
C15_MedianRule ==
    (run_pc = "reported" /\ OkRates # <<>>) =>
        LET n == Len(OkRates)
            below == Cardinality({i \in 1..n : OkRates[i] < summary.p50})
            upto == Cardinality({i \in 1..n : OkRates[i] <= summary.p50})
        IN  /\ \E i \in 1..n : OkRates[i] = summary.p50
            /\ below <= n \div 2
            /\ upto >= n \div 2 + 1
            /\ (n = 4 /\ {OkRates[i] : i \in 1..n} = {10, 20, 30, 40}) =>
                   summary.p50 = 30

\* C15 witness: four ok results with rates 40, 10, 30, 20, median 30.
C15_FourRates ==
    /\ run_pc = "reported"
    /\ OkRates = <<40, 10, 30, 20>>
    /\ summary.p50 = 30

\* ------------------------------------------------ claims on the sampler

\* stop() has returned
Stopped == ram_pc \notin {"idle", "init", "running"}

\* C13: once RamMonitor.stop() has returned the sampler thread appends
\* nothing more to samples, so no append falls between stop() and the end
\* of summary(), nor between two reads of summary().
C13_AsStated == [][Stopped => samples' = samples]_vars

\* ------------------------------------------ more claims on send_request

\* the lines read so far that carry a non-empty content fragment
Fragments ==
    {i \in 1..pos : /\ WellFormed(resp.content[i])
                    /\ resp.content[i].choices = "list"
                    /\ resp.content[i].content > 0}

\* when line i of the body arrives: the POST is sent at t0, the headers
\* come resp.latency later and each line one tick after the one before
ArrivalTime(i) == t0 + resp.latency + i

\* C14: in the streaming path the first-token time is unset until a line
\* with a non-empty content fragment is processed, is then the arrival time
\* of the first such line and never changes again; an ok streamed result
\* has a TTFT exactly when a fragment was processed, namely the time from
\* t0 to that first fragment; a call that does not stream returns none.
C14_FirstFragmentTime ==
    /\ [](/\ (StreamPath /\ req_pc \in {"streaming", "returned"}) =>
                LET F == Fragments
                IN  IF F = {}
                    THEN loc.first_token_time = <<>>
                    ELSE LET i == CHOOSE i \in F : \A j \in F : i <= j
                         IN  loc.first_token_time = <<ArrivalTime(i)>>
          /\ (Returned /\ StreamPath /\ result.status = "ok") =>
                LET F == Fragments
                IN  IF F = {}
                    THEN result.ttft_ms = 0
                    ELSE LET i == CHOOSE i \in F : \A j \in F : i <= j
                         IN  /\ result.ttft_ms # 0
                             /\ result.ttft_ms =
                                  RoundRatio((ArrivalTime(i) - t0) * 1000, 1)
          /\ (Returned /\ ~stream) => result.ttft_ms = 0)
    /\ [][loc.first_token_time # <<>> =>
              loc.first_token_time' = loc.first_token_time]_vars

\* C14 witness: an event with null content, then "Hel", then a second
\* fragment: the TTFT is that of the second line, 3 ticks after the POST.
C14_SecondLineFirstToken ==
    /\ Returned
    /\ StreamPath
    /\ pos = 3
    /\ resp.content[1] = Event("list", 0, "null", 0, 0)
    /\ resp.content[2] = Event("list", 3, "absent", 0, 0)
    /\ resp.content[3] = Event("list", 14, "absent", 0, 0)
    /\ result.status = "ok"
    /\ loc.first_token_time = <<t0 + 3>>
    /\ result.ttft_ms = RoundRatio(3000, 1)

\* the total length of the content fragments of the lines in S
RECURSIVE ContentLength(_)
ContentLength(S) ==
    IF S = {} THEN 0
    ELSE LET i == CHOOSE i \in S : TRUE
         IN  resp.content[i].content + ContentLength(S \ {i})

\* a line read so far decoded to an event with a usage object
UsageSeen ==
    \E i \in 1..pos : /\ resp.content[i].kind = "json"
                      /\ resp.content[i].usage = "object"

\* C16: an ok streamed result none of whose processed events carried a
\* usage block has completion_tokens = max(1, floor(L / 4)), L the total
\* length of the fragments read before the stream ended or [DONE], and no
\* prompt tokens: 1 token when L = 0, 4 tokens when L = 17.
C16_EstimateWithoutUsage ==
    (Returned /\ StreamPath /\ result.status = "ok" /\ ~UsageSeen) =>
        LET L == ContentLength(Fragments)
        IN  /\ result.completion_tokens = IF L < 4 THEN 1 ELSE L \div 4
            /\ result.prompt_tokens = 0
            /\ L = 0 => result.completion_tokens = 1
            /\ L = 17 => result.completion_tokens = 4

\* C16 witness: "Hel" and a 14-character fragment, then the body ends
\* without a usage block and without [DONE]: 17 characters, 4 tokens.
C16_SeventeenChars ==
    /\ Returned
    /\ StreamPath
    /\ resp.content = <<Event("list", 3, "absent", 0, 0),
                        Event("list", 14, "absent", 0, 0)>>
    /\ pos = 2
    /\ result.status = "ok"
    /\ result.completion_tokens = 4

\* ------------------------------------------------ more claims on run_bench

\* C17: a worker has issued no POST while it waits at the gate and exactly
\* one from then on, whatever the result; once the batch is drained every
\* prompt has had exactly one; and a dispatched worker is neither sent back
\* to the gate nor ended other than by its own return, whose outcome stays.
C17_OnePostPerPrompt ==
    /\ [](/\ \A w \in DOMAIN task_pc :
                /\ task_pc[w] = "waiting" => posts[w] = 0
                /\ task_pc[w] \in {"inflight", "done"} => posts[w] = 1
                /\ task_pc[w] = "done" => task_raised[w] = NoExc
          /\ run_pc \in {"drained", "reported"} =>
                /\ DOMAIN posts = 1..N
                /\ \A w \in 1..N : posts[w] = 1)
    /\ [][\A w \in DOMAIN task_pc :
              /\ task_pc[w] = "inflight" =>
                    task_pc'[w] \in {"inflight", "done"}
              /\ task_pc[w] = "done" =>
                    /\ task_pc'[w] = "done"
                    /\ task_result'[w] = task_result[w]
                    /\ posts'[w] = posts[w]]_vars

\* C17 witness: a batch of three is drained in which one request got HTTP
\* 500 and one timed out in mid-stream; each prompt had one POST.
C17_FailuresNotResent ==
    /\ run_pc = "drained"
    /\ N = 3
    /\ \E w \in 1..N : task_resp[w] = "http500"
    /\ \E w \in 1..N : task_resp[w] = "broken" /\ stream
    /\ \A w \in 1..N : posts[w] = 1

\* ------------------------------------------ claims on partial output

\* the transport failed on the last line awaited
FailedInStream ==
    /\ StreamPath
    /\ pos >= 1
    /\ resp.content[pos].kind = "raise"

\* C18: while the body is being read nothing of the parser's state is in
\* the result; and when the transport fails on a line, whatever fragments
\* and usage blocks were processed before, the returned result is an error
\* with no completion tokens, no prompt tokens, no TTFT and no rate.
C18_NoPartialOutput ==
    /\ req_pc = "streaming" => result = RequestResult(prompt)
    /\ (Returned /\ FailedInStream) =>
          /\ result.status = "error"
          /\ result.completion_tokens = 0
          /\ result.prompt_tokens = 0
          /\ result.ttft_ms = 0
          /\ result.tokens_per_sec = 0
          /\ result.error = resp.content[pos].exc.msg

\* C18 witness: "Hel" and a usage block {5, 7} were processed, then the
\* request timed out: the parser holds 3 characters, a first-token time and
\* the usage block, the result none of them.
C18_TimeoutAfterUsage ==
    /\ Returned
    /\ FailedInStream
    /\ pos = 3
    /\ resp.content[1] = Event("list", 3, "absent", 0, 0)
    /\ resp.content[2] = Event("list", 0, "object", 5, 7)
    /\ loc.completion_text = 3
    /\ loc.first_token_time # <<>>
    /\ loc.last_chunk.ct = 5
    /\ result.status = "error"
    /\ result.completion_tokens = 0

\* where a call that returned an error result failed
FailurePoint ==
    IF resp.post_exc # NoExc THEN "post"
    ELSE IF resp.status # 200 THEN "status"
    ELSE IF ~stream THEN "body"
    ELSE IF pos >= 1 /\ resp.content[pos].kind \in {"raise", "json"}
            /\ ~(WellFormed(resp.content[pos]))
    THEN "stream"
    ELSE "usage"

\* C19: a returned result with status error has tokens_per_sec = 0,
\* wherever the call failed: on the POST, on the status, on the body, in
\* the middle of the stream or on the usage block after the stream.
C19_ErrorHasNoRate ==
    (Returned /\ result.status = "error") => result.tokens_per_sec = 0

\* C19 witness: "Hel", then an event whose usage is not an object, then
\* the body ends: the estimate of 1 token and the duration are in the
\* result when reading the usage block fails, the rate is not.
C19_FailedOnUsage ==
    /\ Returned
    /\ StreamPath
    /\ resp.content = <<Event("list", 3, "absent", 0, 0),
                        Event("absent", 0, "string", 0, 0)>>
    /\ pos = 2
    /\ FailurePoint = "usage"
    /\ result.status = "error"
    /\ result.completion_tokens = 1
    /\ result.total_time_s > 0
    /\ result.tokens_per_sec = 0

\* a payload that json.loads decodes but line 141 cannot read
BadShape(e) == e.kind = "json" /\ ~WellFormed(e)

\* C20: a decoded payload of an unexpected shape (a value that is not an
\* object, an empty choices list) is the last line read: the call has
\* returned, with status error and the message of the exception line 141
\* raised, and no token count; after an undecodable payload the call goes
\* on reading, and returns only when the body has ended.
C20_BadShapeEndsRequest ==
    StreamPath =>
        \A i \in 1..pos :
            /\ BadShape(resp.content[i]) =>
                  /\ i = pos
                  /\ Returned
                  /\ result.status = "error"
                  /\ result.error =
                        IF resp.content[i].top # "object"
                        THEN AttributeError.msg ELSE IndexError.msg
                  /\ result.completion_tokens = 0
            /\ (resp.content[i] = BadLine /\ i = pos /\ Returned) =>
                  pos = Len(resp.content)

\* C20 witness: "Hel", then an event with "choices": [] and then [DONE],
\* which is never read: the result is an error.
C20_EmptyChoices ==
    /\ Returned
    /\ StreamPath
    /\ resp.content = <<Event("list", 3, "absent", 0, 0),
                        Event("empty", 0, "object", 5, 7), Done>>
    /\ pos = 2
    /\ result.status = "error"
    /\ result.error = IndexError.msg

====
